---- MODULE Spec2Model ----
(***************************************************************************)
(* A model of federated_learning/data/dataset.py: the partitioner          *)
(* (split_dataset and its three policies), the root-set selector           *)
(* (create_root_dataset) and the attack wrappers.                          *)
(*                                                                         *)
(* Conventions.  Python lists are sequences; a Python index i is the       *)
(* sequence position i + 1.  A sample source is the sequence of its        *)
(* labels (dataset[i + 1] is the label of index i); sample data play no    *)
(* part in any index or label computation.  Real-valued parameters are     *)
(* exact rationals over a fixed denominator (Q = Q / QDen, a Dirichlet     *)
(* proportion = weight / PropDen, ...).  Every random draw is a            *)
(* nondeterministic choice over the values the draw can produce.           *)
(***************************************************************************)
EXTENDS Integers, Sequences, FiniteSets, TLC

\* ------------------------------------------------------------------ bounds
MaxN == 2
MaxClasses == 2
MaxClients == 3
QDen == 2
PropDen == 3
MaxRootN == 4
MaxRootSize == 5
RatioDen == 3
BiasDen == 2
MaxLen == 3
RngPeriod == 2
MaxTableClasses == 4
MaxTableLen == 1

VARIABLES
    dataset,                  \* the sample source: its labels, by index
    num_classes,              \* the class count passed to every operation
    NUM_CLIENTS,              \* config: participant count
    Q,                        \* config: label-skew mixing probability, Q / QDen
    distribution_type,        \* the policy name given to split_dataset
    pc,                       \* position of the partitioner
    class_indices,            \* per class, its (shuffled) list of indices
    class_to_clients,         \* per class, its list of preferred clients
    client_datasets,          \* per client, its accumulating list of indices
    remainder,                \* Dirichlet: the remainder of the class last counted
    class_samples_per_client, \* per counted class, the per-client counts
    k,                        \* label skew: samples assigned so far
    outcome,                  \* "running" | "returned" | "raised"
    error,                    \* the exception raised, "" when none
    ROOT_DATASET_DYNAMIC_SIZE, \* config: whether the root size is a ratio
    ROOT_DATASET_RATIO,       \* config: ROOT_DATASET_RATIO / RatioDen
    ROOT_DATASET_SIZE,        \* config: the fixed root size
    BIAS_PROBABILITY,         \* config: BIAS_PROBABILITY / BiasDen
    BIAS_CLASS,               \* config: the class the root set leans to
    rpc,                      \* position of create_root_dataset
    root_size,                \* the resolved root size
    root_indices,             \* the indices of the root set
    variant,                  \* the attack wrapper class under study
    seed,                     \* the seed both generators are set to
    np_rng,                   \* state of numpy's process-wide generator
    torch_rng,                \* state of torch's process-wide generator
    wrappers,                 \* the two wrapper objects, by slot
    last,                     \* per slot, the outcome of its last __getitem__
    prob_map,                 \* Min-Sum: the probability table, rows of rationals
    ms_i,                     \* Min-Sum constructor: the outer loop's i
    ms_j,                     \* Min-Sum constructor: the inner loop's j
    ms_pc,                    \* position of the Min-Sum constructor
    new_target,               \* Min-Sum: the label last sampled, -1 when none
    ms_error                  \* Min-Sum: the exception raised, "" when none

partVars == <<NUM_CLIENTS, Q, distribution_type, pc, class_indices,
              class_to_clients, client_datasets, remainder,
              class_samples_per_client, k, outcome, error>>

rootVars == <<ROOT_DATASET_DYNAMIC_SIZE, ROOT_DATASET_RATIO, ROOT_DATASET_SIZE,
              BIAS_PROBABILITY, BIAS_CLASS, rpc, root_size, root_indices>>

attackVars == <<variant, seed, np_rng, torch_rng, wrappers, last>>

minsumVars == <<prob_map, ms_i, ms_j, ms_pc, new_target, ms_error>>

\* ---------------------------------------------------- Python arithmetic
Min2(a, b) == IF a <= b THEN a ELSE b

Max2(a, b) == IF a >= b THEN a ELSE b

\* a % b for b # 0: the result has the sign of the divisor.
PyMod(a, b) == IF b > 0 THEN a % b ELSE 0 - ((0 - a) % (0 - b))

\* a // b for b # 0: floor division.
PyFloorDiv(a, b) == IF b > 0 THEN a \div b ELSE (0 - a) \div (0 - b)

\* list(range(a, b))
PyRange(a, b) == [i \in 1 .. Max2(b - a, 0) |-> a + i - 1]

\* s[a:b] for 0 <= a and 0 <= b: the slice is clamped to the list.
PySlice(s, a, b) == SubSeq(s, a + 1, Min2(b, Len(s)))

\* Whether s[i] is defined for a list of length len (negative i counts from the end).
PyIndexOk(i, len) == (0 - len) <= i /\ i < len

Range(s) == {s[i] : i \in 1 .. Len(s)}

RECURSIVE SumSeq(_)
SumSeq(s) == IF s = <<>> THEN 0 ELSE s[1] + SumSeq(Tail(s))

RECURSIVE Flatten(_)
Flatten(ss) == IF ss = <<>> THEN <<>> ELSE ss[1] \o Flatten(Tail(ss))

\* The number of positions of s holding x.
Occurrences(s, x) == Cardinality({i \in 1 .. Len(s) : s[i] = x})

\* random.shuffle(s): every ordering of s (s has no repeated element).
Shuffles(s) ==
    {t \in [1 .. Len(s) -> Range(s)] :
        \A i, j \in 1 .. Len(s) : i # j => t[i] # t[j]}

\* ------------------------------------------------------------ the source
Label(idx) == dataset[idx + 1]

\* class_indices[c] after grouping: the indices of label c, ascending.
GroupedIndices(c) ==
    SelectSeq(PyRange(0, Len(dataset)), LAMBDA i : Label(i) = c)

\* Every outcome of shuffling the first n classes' lists independently.
RECURSIVE ShuffledClasses(_)
ShuffledClasses(n) ==
    IF n = 0 THEN {<<>>}
    ELSE {Append(p, s) : p \in ShuffledClasses(n - 1),
                         s \in Shuffles(GroupedIndices(n - 1))}

\* ------------------------------------------------------------ split_dataset
split_dataset ==
    /\ pc = "split_dataset"
    /\ IF distribution_type \in {"iid", "label_skew", "dirichlet"}
       THEN /\ pc' = distribution_type
            /\ UNCHANGED <<outcome, error>>
       ELSE /\ pc' = "done"
            /\ outcome' = "raised"
            /\ error' = "ValueError"
    /\ UNCHANGED <<rootVars, attackVars, minsumVars>>
    /\ UNCHANGED <<dataset, num_classes, NUM_CLIENTS, Q, distribution_type,
                   class_indices, class_to_clients, client_datasets,
                   remainder, class_samples_per_client, k>>

\* -------------------------------------------------------- split_dataset_iid
samples_per_client == PyFloorDiv(Len(dataset), NUM_CLIENTS)

IidStart(i) == i * samples_per_client

IidEndNoRemainder(i) == IidStart(i) + samples_per_client

IidEnd(i) ==
    IF i < NUM_CLIENTS - 1 THEN IidStart(i) + samples_per_client
    ELSE Len(dataset)

split_dataset_iid ==
    /\ pc = "iid"
    /\ pc' = "done"
    /\ IF NUM_CLIENTS = 0
       THEN \* len(indices) // NUM_CLIENTS
            /\ outcome' = "raised"
            /\ error' = "ZeroDivisionError"
            /\ UNCHANGED client_datasets
       ELSE \E indices \in Shuffles(PyRange(0, Len(dataset))) :
            /\ client_datasets' =
                   [i \in 1 .. Max2(NUM_CLIENTS, 0) |->
                       PySlice(indices, IidStart(i - 1), IidEnd(i - 1))]
            /\ outcome' = "returned"
            /\ UNCHANGED error
    /\ UNCHANGED <<rootVars, attackVars, minsumVars>>
    /\ UNCHANGED <<dataset, num_classes, NUM_CLIENTS, Q, distribution_type,
                   class_indices, class_to_clients, remainder,
                   class_samples_per_client, k>>

\* ---------------------------------------------------- split_dataset_non_iid
clients_per_class ==
    IF NUM_CLIENTS <= num_classes
    THEN Max2(1, PyFloorDiv(NUM_CLIENTS, num_classes))
    ELSE 1

start_client(c) == PyMod(c * clients_per_class, NUM_CLIENTS)

end_client(c) == Min2(start_client(c) + clients_per_class, NUM_CLIENTS)

PreferredClients(c) ==
    IF PyRange(start_client(c), end_client(c)) = <<>>
    THEN <<PyMod(c, NUM_CLIENTS)>>
    ELSE PyRange(start_client(c), end_client(c))

OtherClients(preferred) ==
    SelectSeq(PyRange(0, NUM_CLIENTS), LAMBDA i : i \notin Range(preferred))

\* random.random() < Q, for the draw r / QDen in [0, 1).
CoinPreferredInclusive(r, q) == r <= q

CoinPreferred(r, q) == r < q

\* The clients random.choice draws from, for a sample of class c and coin r.
Candidates(c, r) ==
    IF CoinPreferred(r, Q) THEN class_to_clients[c + 1]
    ELSE IF OtherClients(class_to_clients[c + 1]) # <<>>
         THEN OtherClients(class_to_clients[c + 1])
         ELSE class_to_clients[c + 1]

\* Lines 307-339: the empty client lists, grouping, shuffling, the preferred map.
non_iid_setup ==
    /\ pc = "label_skew"
    /\ IF NUM_CLIENTS = 0
       THEN \* (c * clients_per_class) % NUM_CLIENTS
            /\ pc' = "done"
            /\ outcome' = "raised"
            /\ error' = "ZeroDivisionError"
            /\ UNCHANGED <<class_indices, class_to_clients, client_datasets>>
       ELSE /\ pc' = "non_iid_assign"
            /\ class_indices' \in ShuffledClasses(num_classes)
            /\ class_to_clients' =
                   [c \in 1 .. num_classes |-> PreferredClients(c - 1)]
            /\ client_datasets' = [i \in 1 .. Max2(NUM_CLIENTS, 0) |-> <<>>]
            /\ UNCHANGED <<outcome, error>>
    /\ UNCHANGED <<rootVars, attackVars, minsumVars>>
    /\ UNCHANGED <<dataset, num_classes, NUM_CLIENTS, Q, distribution_type,
                   remainder, class_samples_per_client, k>>

\* Lines 342-359, one sample: the classes in order, each class's list in order.
non_iid_assign ==
    /\ pc = "non_iid_assign"
    /\ k < Len(Flatten(class_indices))
    /\ LET idx == Flatten(class_indices)[k + 1] IN
       \E r \in 0 .. QDen - 1 :
       \E pos \in 1 .. Len(Candidates(Label(idx), r)) :
          LET client_id == Candidates(Label(idx), r)[pos] IN
          IF PyIndexOk(client_id, Len(client_datasets))
          THEN /\ client_datasets' =
                      [client_datasets EXCEPT
                          ![PyMod(client_id, Len(client_datasets)) + 1] =
                              Append(@, idx)]
               /\ k' = k + 1
               /\ UNCHANGED <<pc, outcome, error>>
          ELSE \* client_datasets[client_id]
               /\ pc' = "done"
               /\ outcome' = "raised"
               /\ error' = "IndexError"
               /\ UNCHANGED <<client_datasets, k>>
    /\ UNCHANGED <<rootVars, attackVars, minsumVars>>
    /\ UNCHANGED <<dataset, num_classes, NUM_CLIENTS, Q, distribution_type,
                   class_indices, class_to_clients, remainder,
                   class_samples_per_client>>

\* Lines 361-372: every sample assigned; the lists are returned.
non_iid_return ==
    /\ pc = "non_iid_assign"
    /\ k = Len(Flatten(class_indices))
    /\ pc' = "done"
    /\ outcome' = "returned"
    /\ UNCHANGED <<rootVars, attackVars, minsumVars>>
    /\ UNCHANGED <<dataset, num_classes, NUM_CLIENTS, Q, distribution_type,
                   class_indices, class_to_clients, client_datasets,
                   remainder, class_samples_per_client, k, error>>

\* -------------------------------------------------- split_dataset_dirichlet
\* One row of np.random.dirichlet: non-negative weights over PropDen, sum 1.
ProportionRows ==
    {w \in [1 .. NUM_CLIENTS -> 0 .. PropDen] : SumSeq(w) = PropDen}

\* np.floor(proportions[c] * class_size).astype(int)
FloorCounts(row, class_size) ==
    [j \in 1 .. Len(row) |-> (row[j] * class_size) \div PropDen]

\* class_size - samples_per_client.sum()
Remainder(row, class_size) == class_size - SumSeq(FloorCounts(row, class_size))

\* np.argsort(row)[-r:] for r > 0, as the set of client positions it holds:
\* the last r of an ascending sort are r positions (all of them when r
\* exceeds the row), none with a smaller proportion than a position left
\* out; which of several equal proportions the sort puts last is its own.
ArgSortLast(row, r) ==
    {T \in SUBSET (1 .. Len(row)) :
        /\ Cardinality(T) = Min2(r, Len(row))
        /\ \A a \in T : \A b \in (1 .. Len(row)) \ T : row[a] >= row[b]}

CountsFloorOnly(row, top, class_size) == FloorCounts(row, class_size)

\* Lines 429-439: the floor counts, and one more sample for each client
\* among the last `remainder` of the argsort.
CountsWithRemainder(row, top, class_size) ==
    IF Remainder(row, class_size) > 0
    THEN [j \in 1 .. Len(row) |->
             FloorCounts(row, class_size)[j] + (IF j \in top THEN 1 ELSE 0)]
    ELSE FloorCounts(row, class_size)

\* start_idxs[c] when client j (from 0) takes its slice of class c.
StartIdx(c, j) ==
    SumSeq([jj \in 1 .. j |-> class_samples_per_client[c + 1][jj]])

ClassSlice(c, j) ==
    IF StartIdx(c, j) < Len(class_indices[c + 1])
    THEN PySlice(class_indices[c + 1], StartIdx(c, j),
                 StartIdx(c, j) + class_samples_per_client[c + 1][j + 1])
    ELSE <<>>

\* Lines 410-423: grouping, shuffling, the empty client lists, the draw's
\* argument.  np.repeat(alpha, n) rejects n < 0; for n = 0 the draw has no
\* column and, where the library accepts it, no client loop runs.
dirichlet_setup ==
    /\ pc = "dirichlet"
    /\ \/ /\ NUM_CLIENTS < 0
          /\ pc' = "done"
          /\ outcome' = "raised"
          /\ error' = "ValueError"
          /\ UNCHANGED <<class_indices, client_datasets>>
       \/ /\ NUM_CLIENTS = 0
          /\ pc' = "done"
          /\ outcome' = "raised"
          /\ error' = "ValueError"
          /\ UNCHANGED <<class_indices, client_datasets>>
       \/ /\ NUM_CLIENTS = 0
          /\ pc' = "done"
          /\ outcome' = "returned"
          /\ class_indices' \in ShuffledClasses(num_classes)
          /\ client_datasets' = <<>>
          /\ UNCHANGED error
       \/ /\ NUM_CLIENTS > 0
          /\ pc' = "dirichlet_counts"
          /\ class_indices' \in ShuffledClasses(num_classes)
          /\ client_datasets' = [i \in 1 .. NUM_CLIENTS |-> <<>>]
          /\ UNCHANGED <<outcome, error>>
    /\ UNCHANGED <<rootVars, attackVars, minsumVars>>
    /\ UNCHANGED <<dataset, num_classes, NUM_CLIENTS, Q, distribution_type,
                   class_to_clients, remainder, class_samples_per_client, k>>

\* Lines 427-439, one class: its row of the draw, the remainder and its
\* per-client counts.  The rows of the draw at line 423 are independent and
\* row c is read in this iteration only, so the row is drawn here.
dirichlet_counts ==
    /\ pc = "dirichlet_counts"
    /\ Len(class_samples_per_client) < num_classes
    /\ LET class_size == Len(class_indices[Len(class_samples_per_client) + 1]) IN
       \E row \in ProportionRows :
       \E top \in ArgSortLast(row, Max2(Remainder(row, class_size), 0)) :
          /\ remainder' = Remainder(row, class_size)
          /\ class_samples_per_client' =
                 Append(class_samples_per_client,
                        CountsWithRemainder(row, top, class_size))
    /\ UNCHANGED <<rootVars, attackVars, minsumVars>>
    /\ UNCHANGED <<dataset, num_classes, NUM_CLIENTS, Q, distribution_type,
                   pc, class_indices, class_to_clients, client_datasets, k,
                   outcome, error>>

\* Lines 441-459: each client in turn takes its slice of each class.
dirichlet_distribute ==
    /\ pc = "dirichlet_counts"
    /\ Len(class_samples_per_client) = num_classes
    /\ pc' = "done"
    /\ outcome' = "returned"
    /\ client_datasets' =
           [i \in 1 .. NUM_CLIENTS |->
               Flatten([c \in 1 .. num_classes |-> ClassSlice(c - 1, i - 1)])]
    /\ UNCHANGED <<rootVars, attackVars, minsumVars>>
    /\ UNCHANGED <<dataset, num_classes, NUM_CLIENTS, Q, distribution_type,
                   class_indices, class_to_clients, remainder,
                   class_samples_per_client, k, error>>

\* ------------------------------------------------------ create_root_dataset
\* int(x) for the rational x = num / den with den > 0: truncation toward zero.
PyInt(num, den) ==
    IF num >= 0 THEN num \div den ELSE 0 - ((0 - num) \div den)

\* round(x) for the rational x = num / den >= 0: the nearest integer, a tie
\* going to the even one.
PyRound(num, den) ==
    IF 2 * (num % den) < den THEN num \div den
    ELSE IF 2 * (num % den) > den THEN num \div den + 1
    ELSE IF (num \div den) % 2 = 0 THEN num \div den
    ELSE num \div den + 1

DynamicRootSizeRounded(total, ratio) == PyRound(total * ratio, RatioDen)

\* int(len(full_dataset) * ROOT_DATASET_RATIO)
DynamicRootSize(total, ratio) == PyInt(total * ratio, RatioDen)

\* int(root_size * BIAS_PROBABILITY)
BiasedSize(size, prob) == PyInt(size * prob, BiasDen)

UnbiasedSizeWhole(size, biased) == size

\* root_size - biased_size
UnbiasedSize(size, biased) == size - biased

biased_indices ==
    SelectSeq(PyRange(0, Len(dataset)), LAMBDA i : Label(i) = BIAS_CLASS)

unbiased_indices ==
    SelectSeq(PyRange(0, Len(dataset)), LAMBDA i : Label(i) # BIAS_CLASS)

\* random.sample(pool, n) for 0 <= n <= len(pool): every list of n distinct
\* elements of pool.
Samples(pool, n) ==
    {t \in [1 .. n -> Range(pool)] :
        \A i, j \in 1 .. n : i # j => t[i] # t[j]}

\* Lines 497-503: the root size, fixed or a ratio of the source's size.
root_resolve_size ==
    /\ rpc = "create_root_dataset"
    /\ rpc' = "select"
    /\ root_size' =
           IF ROOT_DATASET_DYNAMIC_SIZE
           THEN DynamicRootSize(Len(dataset), ROOT_DATASET_RATIO)
           ELSE ROOT_DATASET_SIZE
    /\ UNCHANGED <<partVars, attackVars, minsumVars>>
    /\ UNCHANGED <<dataset, num_classes, ROOT_DATASET_DYNAMIC_SIZE,
                   ROOT_DATASET_RATIO, ROOT_DATASET_SIZE, BIAS_PROBABILITY,
                   BIAS_CLASS, root_indices>>

\* Lines 505-517: the two pools and the samples drawn from them.
\* random.sample raises ValueError for a negative count.
root_select ==
    /\ rpc = "select"
    /\ LET biased_size == BiasedSize(root_size, BIAS_PROBABILITY)
           unbiased_size == UnbiasedSize(root_size, biased_size)
       IN  IF BIAS_PROBABILITY = BiasDen
           THEN IF Min2(root_size, Len(biased_indices)) < 0
                THEN rpc' = "raised" /\ UNCHANGED root_indices
                ELSE /\ rpc' = "done"
                     /\ root_indices' \in
                            Samples(biased_indices,
                                    Min2(root_size, Len(biased_indices)))
           ELSE IF \/ Min2(biased_size, Len(biased_indices)) < 0
                   \/ Min2(unbiased_size, Len(unbiased_indices)) < 0
                THEN rpc' = "raised" /\ UNCHANGED root_indices
                ELSE /\ rpc' = "done"
                     /\ \E b \in Samples(biased_indices,
                                         Min2(biased_size, Len(biased_indices))) :
                        \E u \in Samples(unbiased_indices,
                                         Min2(unbiased_size, Len(unbiased_indices))) :
                            root_indices' = b \o u
    /\ UNCHANGED <<partVars, attackVars, minsumVars>>
    /\ UNCHANGED <<dataset, num_classes, ROOT_DATASET_DYNAMIC_SIZE,
                   ROOT_DATASET_RATIO, ROOT_DATASET_SIZE, BIAS_PROBABILITY,
                   BIAS_CLASS, root_size>>

\* ------------------------------------------------------- attack wrappers
Variants ==
    {"LabelFlippingDataset", "BackdoorDataset", "AdaptiveAttackDataset",
     "MinMaxAttackDataset", "MinSumAttackDataset", "AlternatingAttackDataset",
     "TargetedAttackDataset", "GradientInversionAttackDataset"}

\* BackdoorDataset's default target_label.
target_label == 0

\* TargetedAttackDataset's default target_class and target_output.
target_class == 0

target_output == 1

\* A process-wide generator: a state, the value a draw over n outcomes takes
\* in that state, and the state after the draw.  Seeding sets the state.
NextRng(g) == (g + 1) % RngPeriod

Draw(g, n) == g % n

\* np.random.randint(0, high, size=n) from generator state g, for high > 0.
RandintArray(g, high, n) ==
    [i \in 1 .. n |-> Draw((g + i - 1) % RngPeriod, high)]

\* [(i + 1) % num_classes for i in range(num_classes)]
ConfusionMap(classes) ==
    [i \in 1 .. Max2(classes, 0) |-> PyMod(i, classes)]

\* Lines 213-217: quarter i is written over positions [start, end).
RECURSIVE QuarterAssign(_, _, _)
QuarterAssign(map, i, n) ==
    IF i = 4 THEN map
    ELSE QuarterAssign(
             [j \in 1 .. n |->
                 IF /\ i * (n \div 4) <= j - 1
                    /\ j - 1 < (IF i < 3 THEN (i + 1) * (n \div 4) ELSE n)
                 THEN i ELSE map[j]],
             i + 1, n)

QuarterMap(n) == QuarterAssign([j \in 1 .. n |-> 0], 0, n)

\* The outcomes of a constructor over a source of length n.  torch.zeros
\* rejects a negative size.  np.random.randint(0, high, size=n) rejects
\* high <= 0 when n > 0; for n = 0 it returns the empty array or rejects,
\* by the library's version.
ConstructOutcomes(v, classes, n) ==
    IF v = "MinSumAttackDataset" /\ classes < 0 THEN {"raised"}
    ELSE IF v = "AlternatingAttackDataset" /\ classes <= 0
         THEN (IF n = 0 THEN {"ok", "raised"} ELSE {"raised"})
         ELSE {"ok"}

NoWrapper ==
    [state |-> "none", inner |-> 0, confusion_map |-> <<>>,
     alternating_offset |-> <<>>, quarter_map |-> <<>>]

NoItem == [state |-> "none", idx |-> 0, label |-> 0]

\* __len__: len(self.dataset), the source's length through every layer.
RECURSIVE WrapperLen(_)
WrapperLen(w) ==
    IF wrappers[w].inner = 0 THEN Len(dataset)
    ELSE WrapperLen(wrappers[w].inner)

\* A constructor runs with both generators freshly set to the seed.  The
\* wrapped dataset is the source (inner = 0) or the wrapper of slot 1.
construct(w) ==
    /\ wrappers[w].state = "none"
    /\ \E inner \in {0} \cup {i \in 1 .. w - 1 : wrappers[i].state = "ok"} :
       \E res \in ConstructOutcomes(variant, num_classes, Len(dataset)) :
          /\ wrappers' =
                 [wrappers EXCEPT ![w] =
                     IF res = "raised"
                     THEN [NoWrapper EXCEPT !.state = "raised"]
                     ELSE [state |-> "ok",
                           inner |-> inner,
                           confusion_map |->
                               IF variant = "MinMaxAttackDataset"
                               THEN ConfusionMap(num_classes) ELSE <<>>,
                           alternating_offset |->
                               IF variant = "AlternatingAttackDataset"
                               THEN RandintArray(seed, num_classes, Len(dataset))
                               ELSE <<>>,
                           quarter_map |->
                               IF variant = "GradientInversionAttackDataset"
                               THEN QuarterMap(Len(dataset)) ELSE <<>>]]
          /\ np_rng' =
                 IF variant = "AlternatingAttackDataset" /\ res = "ok"
                 THEN (seed + Len(dataset)) % RngPeriod
                 ELSE seed
          /\ torch_rng' = seed
    /\ UNCHANGED <<partVars, rootVars, minsumVars>>
    /\ UNCHANGED <<dataset, num_classes, variant, seed, last>>

Item(label, np, torch) ==
    [ok |-> TRUE, label |-> label, np |-> np, torch |-> torch]

Raised(np, torch) == [ok |-> FALSE, label |-> 0, np |-> np, torch |-> torch]

FlipOffByOne(target, classes) == classes - target

\* self.num_classes - target - 1
Flip(target, classes) == classes - target - 1

\* The strategy of GradientInversionAttackDataset for a quarter.
Strategy(quarter, target, np, torch) ==
    CASE quarter = 0 ->
             IF num_classes = 0 THEN Raised(np, torch)
             ELSE Item(PyMod(target + 1, num_classes), np, torch)
      [] quarter = 1 ->
             IF num_classes = 0 THEN Raised(np, torch)
             ELSE Item(PyMod(target + PyFloorDiv(num_classes, 2), num_classes),
                       np, torch)
      [] quarter = 2 -> Item(target, np, torch)
      [] OTHER -> Item(num_classes - target - 1, np, torch)

\* The offset drawn at the access instead of read from the array.
AlternatingRedrawn(wr, idx, target, np, torch) ==
    IF idx % 2 = 0
    THEN Item(PyMod(target + Draw(np, num_classes), num_classes),
              NextRng(np), torch)
    ELSE Item(target, np, torch)

\* Lines 155-164: an even index is shifted by its stored offset.
Alternating(wr, idx, target, np, torch) ==
    IF idx % 2 = 0
    THEN Item(PyMod(target + wr.alternating_offset[idx + 1], num_classes),
              np, torch)
    ELSE Item(target, np, torch)

\* The label a wrapper's __getitem__ returns for the wrapped dataset's label
\* `target` at index idx, with the generators' states after the call.
Transform(wr, idx, target, np, torch) ==
    CASE variant = "LabelFlippingDataset" ->
             Item(Flip(target, num_classes), np, torch)
      [] variant = "BackdoorDataset" -> Item(target_label, np, torch)
      [] variant = "AdaptiveAttackDataset" -> Item(target, np, torch)
      [] variant = "MinMaxAttackDataset" ->
             IF PyIndexOk(target, Len(wr.confusion_map))
             THEN Item(wr.confusion_map[PyMod(target, Len(wr.confusion_map)) + 1],
                       np, torch)
             ELSE Raised(np, torch)
      [] variant = "MinSumAttackDataset" ->
             \* every entry of a row of prob_map is positive: torch.multinomial
             \* returns the class the generator's draw selects
             IF PyIndexOk(target, Max2(num_classes, 0))
             THEN Item(Draw(torch, num_classes), np, NextRng(torch))
             ELSE Raised(np, torch)
      [] variant = "AlternatingAttackDataset" ->
             Alternating(wr, idx, target, np, torch)
      [] variant = "TargetedAttackDataset" ->
             IF target = target_class THEN Item(target_output, np, torch)
             ELSE Item(target, np, torch)
      [] OTHER -> Strategy(wr.quarter_map[idx + 1], target, np, torch)

\* wrapper[idx]: the wrapped dataset's item first, then this wrapper's rule;
\* an exception of the wrapped dataset passes through.
RECURSIVE GetItem(_, _, _, _)
GetItem(w, idx, np, torch) ==
    LET inner == IF wrappers[w].inner = 0
                 THEN Item(Label(idx), np, torch)
                 ELSE GetItem(wrappers[w].inner, idx, np, torch)
    IN  IF inner.ok
        THEN Transform(wrappers[w], idx, inner.label, inner.np, inner.torch)
        ELSE inner

getitem(w) ==
    /\ wrappers[w].state = "ok"
    /\ \E idx \in 0 .. Len(dataset) - 1 :
          /\ last' = [last EXCEPT ![w] =
                 [state |-> IF GetItem(w, idx, np_rng, torch_rng).ok
                            THEN "ok" ELSE "raised",
                  idx |-> idx,
                  label |-> GetItem(w, idx, np_rng, torch_rng).label]]
          /\ np_rng' = GetItem(w, idx, np_rng, torch_rng).np
          /\ torch_rng' = GetItem(w, idx, np_rng, torch_rng).torch
    /\ UNCHANGED <<partVars, rootVars, minsumVars>>
    /\ UNCHANGED <<dataset, num_classes, variant, seed, wrappers>>

\* ------------------------------------------- the Min-Sum probability table
\* A table entry is an exact rational <<numerator, denominator>> with a
\* positive denominator.
Rat(n, d) == <<n, d>>

RatAdd(a, b) == <<a[1] * b[2] + b[1] * a[2], a[2] * b[2]>>

\* a / b for b > 0.
RatDiv(a, b) == <<a[1] * b[2], a[2] * b[1]>>

RatLess(a, b) == a[1] * b[2] < b[1] * a[2]

RatEq(a, b) == a[1] * b[2] = b[1] * a[2]

RECURSIVE RatSum(_)
RatSum(row) ==
    IF row = <<>> THEN Rat(0, 1) ELSE RatAdd(row[1], RatSum(Tail(row)))

\* torch.zeros(n, n)
Zeros(n) == [r \in 1 .. n |-> [c \in 1 .. n |-> Rat(0, 1)]]

\* min((j - i) % num_classes, (i - j) % num_classes)
distance(i, j) ==
    Min2(PyMod(j - i, num_classes), PyMod(i - j, num_classes))

\* The value the inner loop's body writes to prob_map[i, j].
Weight(i, j) ==
    IF i = j THEN Rat(1, 10)
    ELSE IF distance(i, j) > 0 THEN Rat(1, distance(i, j)) ELSE Rat(1, 10)

\* prob_map[i] / prob_map[i].sum()
Normalized(row) == [c \in 1 .. Len(row) |-> RatDiv(row[c], RatSum(row))]

\* MinSumAttackDataset.__init__ up to the first loop test: torch.zeros
\* rejects a negative size; with no class there is no row to fill.
minsum_init ==
    /\ ms_pc = "init"
    /\ IF num_classes < 0
       THEN /\ ms_pc' = "raised"
            /\ ms_error' = "RuntimeError"
            /\ UNCHANGED prob_map
       ELSE /\ prob_map' = Zeros(num_classes)
            /\ ms_pc' = (IF num_classes = 0 THEN "done" ELSE "fill")
            /\ UNCHANGED ms_error
    /\ UNCHANGED <<ms_i, ms_j, new_target>>
    /\ UNCHANGED <<partVars, rootVars, attackVars>>
    /\ UNCHANGED <<dataset, num_classes>>

\* One pass of the inner loop: prob_map[i, j] is written.
minsum_fill ==
    /\ ms_pc = "fill"
    /\ prob_map' = [prob_map EXCEPT ![ms_i + 1][ms_j + 1] = Weight(ms_i, ms_j)]
    /\ ms_j' = ms_j + 1
    /\ ms_pc' = (IF ms_j + 1 = num_classes THEN "normalize" ELSE "fill")
    /\ UNCHANGED <<ms_i, new_target, ms_error>>
    /\ UNCHANGED <<partVars, rootVars, attackVars>>
    /\ UNCHANGED <<dataset, num_classes>>

\* The end of one pass of the outer loop: row i is divided by its sum.
minsum_normalize ==
    /\ ms_pc = "normalize"
    /\ prob_map' = [prob_map EXCEPT ![ms_i + 1] = Normalized(prob_map[ms_i + 1])]
    /\ ms_i' = ms_i + 1
    /\ ms_j' = 0
    /\ ms_pc' = (IF ms_i + 1 = num_classes THEN "done" ELSE "fill")
    /\ UNCHANGED <<new_target, ms_error>>
    /\ UNCHANGED <<partVars, rootVars, attackVars>>
    /\ UNCHANGED <<dataset, num_classes>>

\* MinSumAttackDataset.__getitem__(idx) on the constructed wrapper:
\* torch.multinomial returns a class of positive probability in the row of
\* the sample's label.
minsum_getitem ==
    /\ ms_pc = "done"
    /\ \E idx \in 0 .. Len(dataset) - 1 :
        IF PyIndexOk(Label(idx), num_classes)
        THEN /\ \E c \in 0 .. num_classes - 1 :
                  /\ prob_map[PyMod(Label(idx), num_classes) + 1][c + 1][1] > 0
                  /\ new_target' = c
             /\ ms_error' = ""
        ELSE /\ new_target' = -1
             /\ ms_error' = "IndexError"
    /\ UNCHANGED <<prob_map, ms_i, ms_j, ms_pc>>
    /\ UNCHANGED <<partVars, rootVars, attackVars>>
    /\ UNCHANGED <<dataset, num_classes>>

\* ------------------------------------------------------ the specifications
Sources(classes, maxlen) ==
    UNION {[1 .. n -> 0 .. classes - 1] : n \in 0 .. maxlen}

PartIdle ==
    /\ NUM_CLIENTS = 0
    /\ Q = 0
    /\ distribution_type = ""
    /\ pc = "idle"
    /\ class_indices = <<>>
    /\ class_to_clients = <<>>
    /\ client_datasets = <<>>
    /\ remainder = 0
    /\ class_samples_per_client = <<>>
    /\ k = 0
    /\ outcome = "running"
    /\ error = ""

RootIdle ==
    /\ ROOT_DATASET_DYNAMIC_SIZE = FALSE
    /\ ROOT_DATASET_RATIO = 0
    /\ ROOT_DATASET_SIZE = 0
    /\ BIAS_PROBABILITY = 0
    /\ BIAS_CLASS = 0
    /\ rpc = "idle"
    /\ root_size = 0
    /\ root_indices = <<>>

AttackIdle ==
    /\ variant = ""
    /\ seed = 0
    /\ np_rng = 0
    /\ torch_rng = 0
    /\ wrappers = <<>>
    /\ last = <<>>

MinSumIdle ==
    /\ prob_map = <<>>
    /\ ms_i = 0
    /\ ms_j = 0
    /\ ms_pc = "idle"
    /\ new_target = -1
    /\ ms_error = ""

vars == <<dataset, num_classes, partVars, rootVars, attackVars, minsumVars>>

\* The partitioner: split_dataset over every small source and configuration.
Init ==
    /\ num_classes \in 1 .. MaxClasses
    /\ dataset \in Sources(num_classes, MaxN)
    /\ NUM_CLIENTS \in -1 .. MaxClients
    /\ Q \in 0 .. QDen
    /\ distribution_type \in {"iid", "label_skew", "dirichlet", "unknown"}
    /\ pc = "split_dataset"
    /\ class_indices = <<>>
    /\ class_to_clients = <<>>
    /\ client_datasets = <<>>
    /\ remainder = 0
    /\ class_samples_per_client = <<>>
    /\ k = 0
    /\ outcome = "running"
    /\ error = ""
    /\ RootIdle
    /\ AttackIdle
    /\ MinSumIdle

Next ==
    \/ split_dataset
    \/ split_dataset_iid
    \/ non_iid_setup
    \/ non_iid_assign
    \/ non_iid_return
    \/ dirichlet_setup
    \/ dirichlet_counts
    \/ dirichlet_distribute

Spec == Init /\ [][Next]_vars

\* The root-set selector.  The size setting the toggle does not select is
\* not read and is held at 0.
RootInit ==
    /\ num_classes \in 1 .. MaxClasses
    /\ dataset \in Sources(num_classes, MaxRootN)
    /\ \/ /\ ROOT_DATASET_DYNAMIC_SIZE = TRUE
          /\ ROOT_DATASET_RATIO \in 0 .. RatioDen
          /\ ROOT_DATASET_SIZE = 0
       \/ /\ ROOT_DATASET_DYNAMIC_SIZE = FALSE
          /\ ROOT_DATASET_RATIO = 0
          /\ ROOT_DATASET_SIZE \in 0 .. MaxRootSize
    /\ BIAS_PROBABILITY \in 0 .. BiasDen
    /\ BIAS_CLASS \in 0 .. num_classes - 1
    /\ rpc = "create_root_dataset"
    /\ root_size = 0
    /\ root_indices = <<>>
    /\ PartIdle
    /\ AttackIdle
    /\ MinSumIdle

RootNext ==
    \/ root_resolve_size
    \/ root_select

RootSpec == RootInit /\ [][RootNext]_vars

\* The attack wrappers: one wrapper class, two objects of it.  A class count
\* >= 1 comes with a source whose labels lie in [0, num_classes).
AttackInit ==
    /\ num_classes \in -1 .. MaxClasses
    /\ dataset \in Sources(Max2(num_classes, 1), MaxLen)
    /\ variant \in Variants
    /\ seed \in 0 .. RngPeriod - 1
    /\ np_rng = seed
    /\ torch_rng = seed
    /\ wrappers = <<NoWrapper, NoWrapper>>
    /\ last = <<NoItem, NoItem>>
    /\ PartIdle
    /\ RootIdle
    /\ MinSumIdle

AttackNext ==
    \/ \E w \in 1 .. 2 : construct(w)
    \/ \E w \in 1 .. 2 : getitem(w)

AttackSpec == AttackInit /\ [][AttackNext]_vars

\* The Min-Sum wrapper alone: its constructor, pass by pass, then reads.
MinSumInit ==
    /\ num_classes \in -1 .. MaxTableClasses
    /\ dataset \in Sources(Max2(num_classes, 1), MaxTableLen)
    /\ prob_map = <<>>
    /\ ms_i = 0
    /\ ms_j = 0
    /\ ms_pc = "init"
    /\ new_target = -1
    /\ ms_error = ""
    /\ PartIdle
    /\ RootIdle
    /\ AttackIdle

MinSumNext ==
    \/ minsum_init
    \/ minsum_fill
    \/ minsum_normalize
    \/ minsum_getitem

MinSumSpec == MinSumInit /\ [][MinSumNext]_vars


\* ------------------------------------------------- claims: the partitioner
AssignedIndices == Flatten(client_datasets)

\* The positions of list s that hold an index of class c.
OfClass(s, c) == {p \in 1 .. Len(s) : Label(s[p]) = c}

Balanced ==
    \A c \in 0 .. num_classes - 1 :
        Len(GroupedIndices(c)) = Len(GroupedIndices(0))

\* C1: for every participant count >= 1 and each of the three policies, a
\* returned partition has one list per participant and holds every source
\* index in [0, n) exactly once (nothing dropped, nothing assigned twice).
C1_CoverageDisjoint ==
    (pc = "done" /\ outcome = "returned" /\ NUM_CLIENTS >= 1) =>
        /\ Len(client_datasets) = NUM_CLIENTS
        /\ Len(AssignedIndices) = Len(dataset)
        /\ \A idx \in 0 .. Len(dataset) - 1 :
               Occurrences(AssignedIndices, idx) = 1

\* A Dirichlet partition of a full-size source, returned after a class left
\* a remainder, with two participants holding samples.
C1_Witness ==
    /\ pc = "done"
    /\ outcome = "returned"
    /\ distribution_type = "dirichlet"
    /\ Len(dataset) = MaxN
    /\ remainder > 0
    /\ Cardinality({i \in 1 .. Len(client_datasets) :
                       client_datasets[i] # <<>>}) >= 2

\* C2: IID partitioning of a balanced source into p >= 1 shares gives every
\* share (the last one included) a size within 1 of n / p:
\* |size - n / p| <= 1, that is |size * p - n| <= p.
C2_IidWithinOne ==
    (/\ pc = "done"
     /\ outcome = "returned"
     /\ distribution_type = "iid"
     /\ NUM_CLIENTS >= 1
     /\ Balanced) =>
        \A i \in 1 .. Len(client_datasets) :
            /\ Len(client_datasets[i]) * NUM_CLIENTS - Len(dataset) <= NUM_CLIENTS
            /\ Len(dataset) - Len(client_datasets[i]) * NUM_CLIENTS <= NUM_CLIENTS

\* C3: in Dirichlet partitioning every counted class has per-participant
\* counts that are all non-negative and sum to the class's size, and in the
\* returned partition each participant holds exactly its count of the
\* class's indices, every index of the class exactly once.
C3_DirichletConservation ==
    (distribution_type = "dirichlet" /\ NUM_CLIENTS >= 1) =>
        /\ \A c \in 1 .. Len(class_samples_per_client) :
               /\ \A j \in 1 .. NUM_CLIENTS :
                      class_samples_per_client[c][j] >= 0
               /\ SumSeq(class_samples_per_client[c]) = Len(class_indices[c])
        /\ (pc = "done" /\ outcome = "returned") =>
               \A c \in 0 .. num_classes - 1 :
                   /\ \A j \in 1 .. NUM_CLIENTS :
                          Cardinality(OfClass(client_datasets[j], c)) =
                              class_samples_per_client[c + 1][j]
                   /\ \A p \in 1 .. Len(GroupedIndices(c)) :
                          Occurrences(AssignedIndices, GroupedIndices(c)[p]) = 1
                   /\ Cardinality(OfClass(AssignedIndices, c)) =
                          Len(GroupedIndices(c))

\* A single class of full size whose floor counts left a remainder of 2,
\* shared out to two participants.
C3_Witness ==
    /\ pc = "done"
    /\ outcome = "returned"
    /\ distribution_type = "dirichlet"
    /\ num_classes = 1
    /\ Len(dataset) = MaxN
    /\ remainder = 2
    /\ Cardinality({j \in 1 .. NUM_CLIENTS :
                       class_samples_per_client[1][j] = 1}) = 2

\* C4: in label-skew partitioning with Q = 1.0 every sample sits with a
\* participant preferred for its class; with Q = 0.0 no sample sits with a
\* preferred participant when a non-preferred one exists, and every sample
\* sits with a preferred one when none exists.
C4_LabelSkewMonotone ==
    (distribution_type = "label_skew" /\ NUM_CLIENTS >= 1) =>
        \A j \in 1 .. Len(client_datasets) :
        \A p \in 1 .. Len(client_datasets[j]) :
            LET preferred ==
                    Range(class_to_clients[Label(client_datasets[j][p]) + 1])
            IN  /\ Q = QDen => (j - 1) \in preferred
                /\ Q = 0 =>
                       IF (0 .. NUM_CLIENTS - 1) \ preferred # {}
                       THEN (j - 1) \notin preferred
                       ELSE (j - 1) \in preferred

\* Q = 0.0, more participants than classes, both classes present: every
\* sample was assigned, all of them away from the preferred participants.
C4_Witness ==
    /\ pc = "done"
    /\ outcome = "returned"
    /\ distribution_type = "label_skew"
    /\ Q = 0
    /\ NUM_CLIENTS > num_classes
    /\ num_classes = 2
    /\ Len(dataset) = MaxN
    /\ Len(AssignedIndices) = MaxN
    /\ \E i, j \in 1 .. Len(dataset) : dataset[i] # dataset[j]

\* C7: the partition operation fails, returning no partition, whenever the
\* policy is not one of the three recognised names and whenever the
\* participant count is <= 0.
C7_InvalidConfigFails ==
    (/\ pc = "done"
     /\ \/ distribution_type \notin {"iid", "label_skew", "dirichlet"}
        \/ NUM_CLIENTS <= 0) =>
        outcome = "raised"

\* --------------------------------------------- claims: the root-set selector
BiasedInRoot ==
    {p \in 1 .. Len(root_indices) : Label(root_indices[p]) = BIAS_CLASS}

OtherInRoot ==
    {p \in 1 .. Len(root_indices) : Label(root_indices[p]) # BIAS_CLASS}

BiasedPoolSize == Cardinality({i \in 1 .. Len(dataset) : dataset[i] = BIAS_CLASS})

OtherPoolSize == Cardinality({i \in 1 .. Len(dataset) : dataset[i] # BIAS_CLASS})

\* floor(s * p) and ceil(s * p) for s = root_size, p = BIAS_PROBABILITY / BiasDen.
FloorSP ==
    CHOOSE f \in 0 .. root_size :
        /\ f * BiasDen <= root_size * BIAS_PROBABILITY
        /\ root_size * BIAS_PROBABILITY < (f + 1) * BiasDen

CeilSP ==
    CHOOSE c \in 0 .. root_size :
        /\ (c - 1) * BiasDen < root_size * BIAS_PROBABILITY
        /\ root_size * BIAS_PROBABILITY <= c * BiasDen

\* C5: for bias probability p in [0, 1] and requested size s the root set
\* holds at most ceil(s * p) bias-class indices and at most s - floor(s * p)
\* others; each count is the requested count (floor(s * p), s - floor(s * p))
\* clamped to its pool's size; no index is repeated; for p = 1.0 only
\* bias-class indices are returned.
C5_RootBiasBound ==
    rpc = "done" =>
        /\ Cardinality(BiasedInRoot) <= CeilSP
        /\ Cardinality(OtherInRoot) <= root_size - FloorSP
        /\ Cardinality(BiasedInRoot) = Min2(FloorSP, BiasedPoolSize)
        /\ Cardinality(OtherInRoot) = Min2(root_size - FloorSP, OtherPoolSize)
        /\ \A p, q \in 1 .. Len(root_indices) :
               p # q => root_indices[p] # root_indices[q]
        /\ BIAS_PROBABILITY = BiasDen => OtherInRoot = {}

\* A root set for 0 < p < 1 with s * p not an integer, where the bias pool
\* is smaller than its requested count and both classes were drawn.
C5_Witness ==
    /\ rpc = "done"
    /\ 0 < BIAS_PROBABILITY
    /\ BIAS_PROBABILITY < BiasDen
    /\ (root_size * BIAS_PROBABILITY) % BiasDen # 0
    /\ BiasedPoolSize < FloorSP
    /\ BiasedInRoot # {}
    /\ OtherInRoot # {}

\* C6 (as stated): with dynamic sizing the root size is
\* round(total_size * ratio), the nearest integer to the product.
C6_DynamicSizeRounded ==
    (rpc \in {"select", "done"} /\ ROOT_DATASET_DYNAMIC_SIZE) =>
        root_size = PyRound(Len(dataset) * ROOT_DATASET_RATIO, RatioDen)

\* C6 (amended): with dynamic sizing the root size is the product
\* total_size * ratio truncated to an integer: the largest integer not above
\* the product.
C6_DynamicSizeTruncated ==
    (rpc \in {"select", "done"} /\ ROOT_DATASET_DYNAMIC_SIZE) =>
        /\ root_size * RatioDen <= Len(dataset) * ROOT_DATASET_RATIO
        /\ Len(dataset) * ROOT_DATASET_RATIO < (root_size + 1) * RatioDen

\* Dynamic sizing of a product whose fraction is above one half: truncation
\* and rounding differ.
C6_Witness ==
    /\ rpc = "done"
    /\ ROOT_DATASET_DYNAMIC_SIZE
    /\ 2 * ((Len(dataset) * ROOT_DATASET_RATIO) % RatioDen) > RatioDen
    /\ root_size >= 1

\* --------------------------------------------- claims: the attack wrappers
\* C8: no wrapper object is produced when num_classes <= 0 (for every
\* variant that takes a class count), nor over a source of length 0 for the
\* variants that precompute per-index state (Alternating, Gradient-Inversion).
C8_ConstructionValidates ==
    \A w \in 1 .. Len(wrappers) :
        wrappers[w].state = "ok" =>
            /\ variant # "AdaptiveAttackDataset" => num_classes > 0
            /\ variant \in {"AlternatingAttackDataset",
                            "GradientInversionAttackDataset"} =>
                   Len(dataset) > 0

\* Two objects of the wrapper class over the same source, each constructed
\* from the seeded generators.
SameWrapperTwice ==
    /\ Len(wrappers) = 2
    /\ wrappers[1].state = "ok"
    /\ wrappers[2].state = "ok"
    /\ wrappers[1].inner = 0
    /\ wrappers[2].inner = 0

ReadSameIndex ==
    /\ last[1].state = "ok"
    /\ last[2].state = "ok"
    /\ last[1].idx = last[2].idx

\* C9 (as stated): for every wrapper variant the wrapper's length is the
\* source's, and two constructions under the same seed return identical
\* labels at every index.
C9_DeterministicEveryVariant ==
    SameWrapperTwice =>
        /\ WrapperLen(1) = Len(dataset)
        /\ WrapperLen(2) = Len(dataset)
        /\ ReadSameIndex => last[1].label = last[2].label

\* C9 (amended): for every wrapper variant the wrapper's length is the
\* source's; for every variant but Min-Sum, two constructions under the same
\* seed return identical labels at every index.
C9_DeterministicExceptMinSum ==
    SameWrapperTwice =>
        /\ WrapperLen(1) = Len(dataset)
        /\ WrapperLen(2) = Len(dataset)
        /\ (variant # "MinSumAttackDataset" /\ ReadSameIndex) =>
               last[1].label = last[2].label

\* Two Alternating wrappers read at the same even index, whose stored offset
\* changed the label.
C9_Witness ==
    /\ SameWrapperTwice
    /\ ReadSameIndex
    /\ variant = "AlternatingAttackDataset"
    /\ last[1].idx % 2 = 0
    /\ last[1].label # Label(last[1].idx)

\* C10: for C >= 1 and every label l in [0, C), one Label-Flip wrapper
\* returns C - l - 1, which lies in [0, C), and a Label-Flip wrapper around
\* a Label-Flip wrapper (same C) returns l.
C10_FlipInvolution ==
    (variant = "LabelFlippingDataset" /\ num_classes >= 1) =>
        \A w \in 1 .. Len(wrappers) :
            (wrappers[w].state = "ok" /\ last[w].state = "ok") =>
                IF wrappers[w].inner = 0
                THEN /\ last[w].label = num_classes - Label(last[w].idx) - 1
                     /\ last[w].label \in 0 .. num_classes - 1
                ELSE last[w].label = Label(last[w].idx)

\* A doubly wrapped source read at an index whose flipped label differs
\* from its label.
C10_Witness ==
    /\ variant = "LabelFlippingDataset"
    /\ num_classes >= 2
    /\ Len(wrappers) = 2
    /\ wrappers[2].state = "ok"
    /\ wrappers[2].inner = 1
    /\ last[2].state = "ok"
    /\ last[1].state = "ok"
    /\ last[1].idx = last[2].idx
    /\ last[1].label # last[2].label

\* --------------------------------------- claims: the Min-Sum probability table
\* The row of true class i is complete (normalized) in prob_map.
RowDone(i) == ms_pc = "done" \/ (ms_pc \in {"fill", "normalize"} /\ i < ms_i)

\* Among the classes other than i, a greater circular distance from i has a
\* greater probability.
MassGrowsWithDistance ==
    \A i, j, c \in 0 .. num_classes - 1 :
        (RowDone(i) /\ j # i /\ c # i /\ distance(i, j) > distance(i, c)) =>
            RatLess(prob_map[i + 1][c + 1], prob_map[i + 1][j + 1])

\* When row i is about to be normalized its own class holds 0.1.
ResidualBeforeNormalization ==
    (ms_pc = "normalize") => RatEq(prob_map[ms_i + 1][ms_i + 1], Rat(1, 10))

RowsSumToOne ==
    \A i \in 0 .. num_classes - 1 :
        RowDone(i) => RatEq(RatSum(prob_map[i + 1]), Rat(1, 1))

\* C11: in the Min-Sum table built at construction, for every true class i
\* and other classes j, k, a greater circular distance from i to j than to k
\* means a greater probability for j than for k; the true class holds 0.1
\* before renormalization; and each row sums to 1.
C11_MassGrowsWithDistance ==
    /\ MassGrowsWithDistance
    /\ ResidualBeforeNormalization
    /\ RowsSumToOne

====
